---- MODULE Spec2Model ----
(***************************************************************************)
(* Model of janus_client/transport.py: the transport's Transaction Table   *)
(* (JanusTransportHTTP.transactions), its Session Registry                 *)
(* (JanusTransportHTTP.sessions), JanusTransportHTTP.send and              *)
(* JanusTransport.create_session / destroy_session.                        *)
(*                                                                         *)
(* JanusTransport supplies create_session/destroy_session and expects the  *)
(* concrete transport to supply send, transactions and sessions; the model *)
(* composes it with JanusTransportHTTP, the one concrete transport of the  *)
(* file.  The inbound side (the Dispatcher of spec section 4.2) is not in  *)
(* transport.py, whose receive() is an empty stub; it is modelled from the *)
(* spec.                                                                   *)
(***************************************************************************)
EXTENDS Integers, Sequences, FiniteSets, TLC

\* ---------------------------------------------------------------- bounds
MaxCalls == 2       \* invocations of send / create_session / destroy_session
MaxMsgs == 2        \* message objects the callers build
MaxFrames == 2      \* inbound frames the server pushes
MaxSessions == 2    \* session objects (and server-assigned session ids)

Calls == 1..MaxCalls
MsgObjs == 1..MaxMsgs
SessionIds == 1..MaxSessions
TxnIds == 1..MaxCalls            \* values uuid.uuid4().hex can take
Conns == {"A", "B"}              \* two JanusTransportHTTP instances

\* ------------------------------------------------------- python values
None == 0                        \* None / absent key
CallerTxn == -1                  \* a "transaction" value written by a caller
Secret(k) == IF k = "A" THEN 101 ELSE 102     \* api_secret strings
Token(k) == IF k = "A" THEN 201 ELSE 202      \* token strings
UriArgs == { <<None, None>>, <<1, 1>> }     \* (session_id, handle_id) of send

VARIABLES
    transactions,   \* class attribute: transaction id -> asyncio.Queue contents
    sessions,       \* class attribute: session id -> JanusSession
    api_secret,     \* instance attribute, per transport instance
    token,          \* instance attribute, per transport instance
    msgs,           \* heap of message objects handed to send()
    calls,          \* one record per invocation (coroutine position and locals)
    wire,           \* HTTP requests issued, per invocation
    log,            \* log records written, per invocation
    inbound         \* inbound frames in arrival order, with the target chosen

vars == <<transactions, sessions, api_secret, token, msgs, calls, wire, log, inbound>>

\* dict without key k
Remove(d, k) == [x \in DOMAIN d \ {k} |-> d[x]]

\* self.transactions as instance k sees it: the attribute is
\* looked up on the class, where the one dict of line 56 lives
TableOf(k) == transactions

NoMsg == [kind |-> "none", janus |-> FALSE, transaction |-> None,
          api_secret |-> None, token |-> None]

\* what a caller can build: a dict with or without "janus", with or without
\* "transaction"; or a JanusMessage dataclass instance (both fields set)
MsgShapes ==
    { [kind |-> "dict", janus |-> j, transaction |-> t,
       api_secret |-> None, token |-> None] :
         j \in BOOLEAN, t \in {None, CallerTxn} }
    \cup
    { [kind |-> "JanusMessage", janus |-> TRUE, transaction |-> CallerTxn,
       api_secret |-> None, token |-> None] }

IdleCall == [op |-> "none", pc |-> "idle", conn |-> "A", msg |-> 0,
             session_id |-> None, handle_id |-> None,
             tid |-> None, session |-> 0, error |-> "none"]

\* transaction ids already drawn from uuid4
UsedTxns == { calls[c].tid : c \in Calls } \ {None}

\* JanusMessage: dataclass with two required fields
JanusMessage == {"janus", "transaction"}

\* dataclass __init__ called with keyword arguments kw
DataclassInit(fields, kw) == IF fields \subseteq kw THEN "ok" ELSE "TypeError"

\* __sanitize_message without its "janus" check
sanitize_message_lax(message) ==
    IF message.kind # "dict" THEN "TypeError" ELSE "ok"

\* __sanitize_message: the exception it raises, or "ok"
sanitize_message(message) ==
    IF message.kind # "dict" THEN "TypeError"      \* `in` on a dataclass instance
    ELSE IF ~message.janus THEN "Exception"        \* 'Must set "janus" field'
    ELSE "ok"                                      \* (warns if "transaction" set)

\* __build_uri
build_uri(k, session_id, handle_id) ==
    IF session_id # None
    THEN IF handle_id # None THEN <<k, session_id, handle_id>>
                             ELSE <<k, session_id>>
    ELSE <<k>>

\* message.transaction (attribute access) on the object passed to send
AttrTransaction(message) ==
    IF message.kind = "dict" THEN "AttributeError" ELSE "ok"

\* __init__: instance "A" is built with an api_secret and no token, instance
\* "B" with a token and no api_secret
InitSecret == [k \in Conns |-> IF k = "A" THEN Secret(k) ELSE None]
InitToken == [k \in Conns |-> IF k = "B" THEN Token(k) ELSE None]

Init ==
    /\ transactions = <<>>
    /\ sessions = <<>>
    /\ api_secret = InitSecret
    /\ token = InitToken
    /\ msgs = [m \in MsgObjs |-> NoMsg]
    /\ calls = [c \in Calls |-> IdleCall]
    /\ wire = [c \in Calls |-> << >>]
    /\ log = [c \in Calls |-> << >>]
    /\ inbound = <<>>

\* ------------------------------------------------------------- callers

\* lines 116-119 with the token added under the api secret's condition
Credentials_one_test(message, k) ==
    [message EXCEPT !.api_secret = IF api_secret[k] # None THEN api_secret[k] ELSE @,
                    !.token = IF api_secret[k] # None THEN token[k] ELSE @]

\* lines 116-119 of send: each configured credential is put in the message
Credentials(message, k) ==
    [message EXCEPT !.api_secret = IF api_secret[k] # None THEN api_secret[k] ELSE @,
                    !.token = IF token[k] # None THEN token[k] ELSE @]

\* lines 113-119 with a transaction the caller set left in place
Stamp_keep(message, k, t) ==
    Credentials([message EXCEPT !.transaction = IF @ # None THEN @ ELSE t], k)

\* the message after lines 113-119 of send
Stamp(message, k, t) ==
    Credentials([message EXCEPT !.transaction = t], k)

\* logger.warn of __sanitize_message, if any
SanitizeLog(c, k, message) ==
    IF message.kind = "dict" /\ message.janus /\ message.transaction # None
    THEN << [level |-> "warn", call |-> c, conn |-> k,
             text |-> [NoMsg EXCEPT !.transaction = message.transaction]] >>
    ELSE << >>

\* the object a caller passes to send: one built for this call (the next
\* free object, of any shape) or one that an earlier call was given
Passed(m, shape) ==
    IF msgs[m].kind = "none"
    THEN IF \A n \in MsgObjs : n < m => msgs[n].kind # "none" THEN {shape} ELSE {}
    ELSE {msgs[m]}

\* send(), lines 108-123: everything before the first await
Send(c, k, m, shape, args) ==
    /\ calls[c].pc = "idle"
    /\ \E message \in Passed(m, shape) :
       LET raised == sanitize_message(message)
           call == [calls[c] EXCEPT !.op = "send", !.conn = k, !.msg = m,
                                    !.session_id = args[1], !.handle_id = args[2]]
       IN IF raised # "ok"
          THEN /\ calls' = [calls EXCEPT ![c] = [call EXCEPT !.pc = "failed", !.error = raised]]
               /\ msgs' = [msgs EXCEPT ![m] = message]
               /\ UNCHANGED <<transactions, log>>
          ELSE \E t \in TxnIds \ UsedTxns :
               /\ transactions' = (t :> << >>) @@ transactions
               /\ msgs' = [msgs EXCEPT ![m] = Stamp(message, k, t)]
               /\ log' = [log EXCEPT ![c] = SanitizeLog(c, k, message)
                             \o << [level |-> "info", call |-> c, conn |-> k,
                                    text |-> Stamp(message, k, t)] >>]
               /\ calls' = [calls EXCEPT ![c] = [call EXCEPT !.pc = "http", !.tid = t]]
    /\ UNCHANGED <<sessions, api_secret, token, wire, inbound>>

\* send(), lines 124-127: the GET request goes out (it carries the uri only)
HttpRequest(c) ==
    /\ calls[c].pc = "http"
    /\ wire' = [wire EXCEPT ![c] = << [method |-> "GET",
                                       uri |-> build_uri(calls[c].conn, calls[c].session_id,
                                                         calls[c].handle_id)] >>]
    /\ calls' = [calls EXCEPT ![c].pc = "response"]
    /\ UNCHANGED <<transactions, sessions, api_secret, token, msgs, log, inbound>>

\* send(), lines 128-137: the response is read, then the slot is looked up
\* under message.transaction.  A message that passed line 108 is a dict, which
\* has no such attribute: the lookup raises and lines 138-142 are not reached
HttpResponse(c) ==
    /\ calls[c].pc = "response"
    /\ LET raised == AttrTransaction(msgs[calls[c].msg])
       IN  /\ raised # "ok"
           /\ calls' = [calls EXCEPT ![c].pc = "failed", ![c].error = raised]
    /\ UNCHANGED <<transactions, sessions, api_secret, token, msgs, wire, log, inbound>>

\* send(), lines 124-132: the request fails in aiohttp; nothing catches it
HttpError(c) ==
    /\ calls[c].pc = "response"
    /\ calls' = [calls EXCEPT ![c].pc = "failed", ![c].error = "ClientError"]
    /\ UNCHANGED <<transactions, sessions, api_secret, token, msgs, wire, log, inbound>>

\* create_session(), line 34: JanusMessage(janus="create") raises before
\* send() is entered, so lines 37-42 are never reached
create_session(c, k, s) ==
    /\ calls[c].pc = "idle"
    /\ LET raised == DataclassInit(JanusMessage, {"janus"})
       IN  /\ raised # "ok"
           /\ calls' = [calls EXCEPT ![c] = [@ EXCEPT !.op = "create_session", !.conn = k,
                                                      !.session = s, !.pc = "failed",
                                                      !.error = raised]]
    /\ UNCHANGED <<transactions, sessions, api_secret, token, msgs, wire, log, inbound>>

\* destroy_session() emptying the registry instead of deleting one key
destroy_session_clear(c, k, s) ==
    /\ calls[c].pc = "idle"
    /\ LET call == [calls[c] EXCEPT !.op = "destroy_session", !.conn = k, !.session = s]
       IN IF s \in DOMAIN sessions
          THEN /\ sessions' = << >>
               /\ calls' = [calls EXCEPT ![c] = [call EXCEPT !.pc = "done"]]
          ELSE /\ calls' = [calls EXCEPT ![c] = [call EXCEPT !.pc = "failed",
                                                              !.error = "KeyError"]]
               /\ UNCHANGED sessions
    /\ UNCHANGED <<transactions, api_secret, token, msgs, wire, log, inbound>>

\* destroy_session(): del self.sessions[session.id]
destroy_session(c, k, s) ==
    /\ calls[c].pc = "idle"
    /\ LET call == [calls[c] EXCEPT !.op = "destroy_session", !.conn = k, !.session = s]
       IN IF s \in DOMAIN sessions
          THEN /\ sessions' = Remove(sessions, s)
               /\ calls' = [calls EXCEPT ![c] = [call EXCEPT !.pc = "done"]]
          ELSE /\ calls' = [calls EXCEPT ![c] = [call EXCEPT !.pc = "failed",
                                                              !.error = "KeyError"]]
               /\ UNCHANGED sessions
    /\ UNCHANGED <<transactions, api_secret, token, msgs, wire, log, inbound>>

\* ----------------------------------------------------------- dispatcher

Frames == [transaction : TxnIds \cup {None}, session_id : {None, 1},
           handle_id : {None, 1}]

\* spec 3: the Handle Registry a Session owns; one handle is attached, to the
\* last session
HandleRegistry(s) == IF s = MaxSessions THEN {1} ELSE {}

\* the handle ids known to some registered Session's Handle Registry
KnownHandles == UNION { HandleRegistry(s) : s \in DOMAIN sessions }

\* a send() that registered transaction t and has not yet returned or raised
InFlight(c, t) ==
    /\ calls[c].op = "send"
    /\ calls[c].tid = t
    /\ calls[c].pc \in {"http", "response"}

\* the routing with the session looked up before the handle
Route_session_first(f) ==
    IF f.transaction \in DOMAIN transactions THEN "slot"
    ELSE IF f.session_id \in DOMAIN sessions THEN "session"
    ELSE IF f.handle_id \in KnownHandles THEN "handle"
    ELSE "dropped"

\* spec 4.2: the target of an inbound frame
Route(f) ==
    IF f.transaction \in DOMAIN transactions THEN "slot"
    ELSE IF f.handle_id \in KnownHandles THEN "handle"
    ELSE IF f.session_id \in DOMAIN sessions THEN "session"
    ELSE "dropped"

\* the dispatcher opening a slot for the transaction id of a frame it drops
Dispatch_setdefault(f) ==
    /\ Len(inbound) < MaxFrames
    /\ inbound' = Append(inbound, [frame |-> f, target |-> Route(f),
                                   awaited |-> \E c \in Calls : InFlight(c, f.transaction)])
    /\ transactions' = IF Route(f) = "slot" THEN Remove(transactions, f.transaction)
                       ELSE IF Route(f) = "dropped" /\ f.transaction # None
                       THEN (f.transaction :> << >>) @@ transactions
                       ELSE transactions
    /\ UNCHANGED <<sessions, api_secret, token, msgs, calls, wire, log>>

\* spec 4.2: one inbound frame is routed; step 1 delivers it to the slot and
\* removes the slot from the table
Dispatch(f) ==
    /\ Len(inbound) < MaxFrames
    /\ inbound' = Append(inbound, [frame |-> f, target |-> Route(f),
                                   awaited |-> \E c \in Calls : InFlight(c, f.transaction)])
    /\ transactions' = IF Route(f) = "slot" THEN Remove(transactions, f.transaction)
                       ELSE transactions
    /\ UNCHANGED <<sessions, api_secret, token, msgs, calls, wire, log>>

\* Spec starts with an empty registry and create_session never fills it, so a
\* frame's session id cannot change its route there: Next draws frames that
\* carry none
Next ==
    \/ \E c \in Calls, k \in Conns, m \in MsgObjs, shape \in MsgShapes, args \in UriArgs :
          Send(c, k, m, shape, args)
    \/ \E c \in Calls : HttpRequest(c)
    \/ \E c \in Calls : HttpResponse(c)
    \/ \E c \in Calls : HttpError(c)
    \/ \E c \in Calls, k \in Conns, s \in SessionIds : create_session(c, k, s)
    \/ \E c \in Calls, k \in Conns, s \in SessionIds : destroy_session(c, k, s)
    \/ \E f \in Frames : f.session_id = None /\ f.handle_id = None /\ Dispatch(f)

Spec == Init /\ [][Next]_vars

\* the registry as the session layer leaves it after sessions were created
InitRegistered ==
    /\ transactions = << >>
    /\ sessions = [s \in SessionIds |-> s]
    /\ api_secret = InitSecret
    /\ token = InitToken
    /\ msgs = [m \in MsgObjs |-> NoMsg]
    /\ calls = [c \in Calls |-> IdleCall]
    /\ wire = [c \in Calls |-> << >>]
    /\ log = [c \in Calls |-> << >>]
    /\ inbound = << >>

\* a well-formed message: a dict with "janus" and no "transaction"
WellFormed == [kind |-> "dict", janus |-> TRUE, transaction |-> None,
               api_secret |-> None, token |-> None]

\* the dispatcher with sessions registered: frames carry any transaction id,
\* session id and handle id, next to sends of well-formed messages to the base
\* uri and to sessions being destroyed
NextRegistered ==
    \/ \E c \in Calls, k \in Conns, m \in MsgObjs :
          Send(c, k, m, WellFormed, <<None, None>>)
    \/ \E c \in Calls : HttpRequest(c)
    \/ \E c \in Calls : HttpResponse(c)
    \/ \E c \in Calls, k \in Conns, s \in SessionIds : destroy_session(c, k, s)
    \/ \E f \in Frames : Dispatch(f)

SpecRegistered == InitRegistered /\ [][NextRegistered]_vars

\* the callers' side alone: send() on either instance with any message, to the
\* base uri
NextSend ==
    \/ \E c \in Calls, k \in Conns, m \in MsgObjs, shape \in MsgShapes :
          Send(c, k, m, shape, <<None, None>>)
    \/ \E c \in Calls : HttpRequest(c)
    \/ \E c \in Calls : HttpResponse(c)
    \/ \E c \in Calls : HttpError(c)

SpecSend == Init /\ [][NextSend]_vars

\* with sessions registered: destroy_session next to sends of well-formed
\* messages
NextDestroy ==
    \/ \E c \in Calls, k \in Conns, m \in MsgObjs, args \in UriArgs :
          Send(c, k, m, WellFormed, args)
    \/ \E c \in Calls : HttpRequest(c)
    \/ \E c \in Calls : HttpResponse(c)
    \/ \E c \in Calls : HttpError(c)
    \/ \E c \in Calls, k \in Conns, s \in SessionIds : destroy_session(c, k, s)

SpecDestroy == InitRegistered /\ [][NextDestroy]_vars

\* ------------------------------------------------------------ properties

\* error names of the spec's taxonomy (section 7)
SpecErrors == {"ValidationError", "ConnectivityError", "TimeoutError", "ProtocolError"}

\* the send() of call c has returned a reply to its caller
Returned(c) == calls[c].op = "send" /\ calls[c].pc = "done"

\* the send() of call c has returned or raised
Ended(c) == calls[c].op = "send" /\ calls[c].pc \in {"done", "failed"}

\* positions of the inbound frames that carry transaction t
FramesFor(t) == { i \in DOMAIN inbound : inbound[i].frame.transaction = t }

\* the "Send: ..." records of call c: the serialised outgoing messages
Outgoing(c) == { log[c][i].text : i \in { j \in DOMAIN log[c] : log[c][j].level = "info" } }

\* C1: a send() whose reply has been delivered to its slot, and whose request
\* did not fail in transport, returns that reply when it reaches its wait.
C1_Correlation ==
    [][ \A c \in Calls :
          ( /\ calls[c].pc = "response"
            /\ calls'[c].pc # "response"
            /\ calls'[c].error # "ClientError"
            /\ \E i \in FramesFor(calls[c].tid) :
                  inbound[i].target = "slot" /\ inbound[i].awaited )
          => Returned(c)' ]_vars

\* C2: of the frames that carry the transaction id of a finished send(), the
\* first is the one the caller received and every later one is not put in a slot.
C2_FirstMatchWins ==
    \A c \in Calls :
      ( /\ Ended(c)
        /\ calls[c].tid # None
        /\ calls[c].error # "ClientError"
        /\ \E i \in FramesFor(calls[c].tid) : inbound[i].awaited )
      => /\ Returned(c)
         /\ \A i, j \in FramesFor(calls[c].tid) :
               i < j => inbound[i].target = "slot" /\ inbound[j].target # "slot"

\* C3: with another send() still in flight on the same transport, a send()
\* whose reply has arrived completes when it reaches its wait.
C3_IndependentProgress ==
    [][ \A c1, c2 \in Calls :
          ( /\ c1 # c2
            /\ calls[c1].op = "send" /\ calls[c1].pc \in {"http", "response"}
            /\ calls[c1].conn = calls[c2].conn
            /\ calls[c2].op = "send" /\ calls[c2].pc = "response"
            /\ calls'[c2].pc # "response"
            /\ calls'[c2].error # "ClientError"
            /\ \E i \in FramesFor(calls[c2].tid) : inbound[i].awaited )
          => /\ Returned(c2)'
             /\ calls'[c1] = calls[c1] ]_vars

\* C4: a send() that registered a slot, got no reply and raised, raised
\* TimeoutError and left no slot behind.
C4_TimeoutFreesSlot ==
    \A c \in Calls :
      ( /\ calls[c].op = "send"
        /\ calls[c].pc = "failed"
        /\ calls[c].tid # None
        /\ calls[c].error # "ClientError"
        /\ FramesFor(calls[c].tid) = {} )
      => /\ calls[c].error = "TimeoutError"
         /\ calls[c].tid \notin DOMAIN transactions

\* a dict that lacks the "janus" key
LacksJanus(message) == message.kind = "dict" /\ ~message.janus

\* the step in which call c enters send() with a dict lacking "janus"
SendsWithoutJanus(c) ==
    /\ calls[c].pc = "idle"
    /\ calls'[c].op = "send"
    /\ LacksJanus(msgs'[calls'[c].msg])

C7_CreateRequestAccepted ==
    \A c \in Calls :
      (calls[c].op = "create_session" /\ calls[c].pc = "failed")
      => calls[c].tid # None

\* C8: a create_session() that fails raises an error of the spec's taxonomy
\* (ProtocolError for a reply without the id, or what send() raised) and
\* leaves the Session Registry as it was.
C8_CreateFailure ==
    \A c \in Calls :
      (calls[c].op = "create_session" /\ calls[c].pc = "failed")
      => /\ calls[c].error \in SpecErrors \ {"ValidationError"}
         /\ calls[c].session \notin DOMAIN sessions

\* the step in which call c runs destroy_session to completion
Destroys(c) ==
    /\ calls[c].pc = "idle"
    /\ calls'[c].op = "destroy_session"
    /\ calls'[c].pc = "done"

\* C9: destroy_session(session) on a registered session removes the entry of
\* session.id and nothing else; the Transaction Table is unchanged and no
\* request is issued.
C9_DestroyFrame ==
    [][ \A c \in Calls :
          Destroys(c)
          => /\ calls'[c].session \in DOMAIN sessions
             /\ DOMAIN sessions' = DOMAIN sessions \ {calls'[c].session}
             /\ \A x \in DOMAIN sessions' : sessions'[x] = sessions[x]
             /\ transactions' = transactions
             /\ wire' = wire
             /\ log' = log ]_vars

C9_Witness ==
    \E c \in Calls :
      /\ calls[c].op = "destroy_session" /\ calls[c].pc = "done"
      /\ DOMAIN sessions # {}
      /\ DOMAIN transactions # {}

\* C10: once a session has been destroyed, destroying it again does not fail.
C10_DestroyIdempotent ==
    \A c, d \in Calls :
      ( /\ c # d
        /\ calls[d].op = "destroy_session" /\ calls[d].pc = "done"
        /\ calls[c].op = "destroy_session" /\ calls[c].session = calls[d].session )
      => calls[c].pc # "failed"

\* C11: a send() that the failing connection has failed raised
\* ConnectivityError and has no entry left in the Transaction Table.
C11_ConnectionLoss ==
    \A c \in Calls :
      (calls[c].op = "send" /\ calls[c].pc = "failed" /\ wire[c] # << >>
         /\ calls[c].error = "ClientError")
      => calls[c].tid \notin DOMAIN transactions

C16_CredentialsNotLogged ==
    \A c \in Calls :
      \A i \in DOMAIN log[c] :
        /\ log[c][i].text.api_secret = None
        /\ log[c][i].text.token = None

\* C17: a room request sent through an attached handle (a send() addressed to
\* that handle) reports the server's verdict to its caller: unless the
\* transport failed the request, the send() that carries it returns the reply.
C17_RoomRequestReports ==
    \A c \in Calls :
      ( /\ Ended(c)
        /\ calls[c].handle_id # None
        /\ calls[c].tid # None
        /\ calls[c].error # "ClientError" )
      => Returned(c)

\* C18: the Transaction Table holds exactly the transaction ids of the send()
\* calls in flight.
C18_NoLeakedSlots ==
    DOMAIN transactions = { calls[c].tid : c \in { d \in Calls : InFlight(d, calls[d].tid) } }

\* C19: the slot is registered before the request goes out, and a reply that
\* arrives between the request and the wait is put in the slot and returned
\* by that send().
C19_RegisterBeforeTransmit ==
    \A c \in Calls :
      /\ wire[c] # << >> => calls[c].tid # None
      /\ ( /\ Ended(c)
           /\ wire[c] # << >>
           /\ calls[c].error # "ClientError"
           /\ \E i \in FramesFor(calls[c].tid) : inbound[i].awaited )
         => /\ Returned(c)
            /\ \E i \in FramesFor(calls[c].tid) :
                  inbound[i].awaited /\ inbound[i].target = "slot"

\* C20: the Transaction Table of an instance holds only the transaction ids
\* of send() calls made on that instance.
C20_OwnTable ==
    \A k \in Conns :
      \A t \in DOMAIN TableOf(k) :
        \E c \in Calls : calls[c].op = "send" /\ calls[c].conn = k /\ calls[c].tid = t

\* the record of the frame a step has routed
Routed == inbound'[Len(inbound')]

====
